---- MODULE Spec2Model ----
(***************************************************************************)
(* State-machine model of the stablecoin_bridge program                    *)
(* (src/solana/programs/programs/stablecoin_bridge/src/lib.rs, state.rs).  *)
(*                                                                         *)
(* One action per instruction handler.  An instruction that returns an     *)
(* error leaves every account as it was (the runtime discards the writes   *)
(* of a failed instruction), so a failed call is a stuttering step: an     *)
(* action is enabled exactly when its call succeeds, and the handler's     *)
(* *_error operator gives the error every other call ends with.            *)
(*                                                                         *)
(* u64 is modelled at a reduced width of U64Bits bits: TLC's integers are  *)
(* 32 bits wide, and the widest product the handlers form                  *)
(* (amount * fee_bps, fee_bps <= 10000) must stay representable.           *)
(***************************************************************************)
EXTENDS Integers, FiniteSets, Sequences, TLC

VARIABLES
    config,           \* the Config account (state.rs Config)
    pools,            \* Pool accounts, keyed by stablecoin mint (PDA ["pool", mint])
    bridge_locks,     \* BridgeLock accounts, keyed by (pool, seed nonce) (PDA ["bridge_lock", pool, nonce])
    lp_supply,        \* lp_token_mint.supply of each pool
    vault,            \* token balance of each pool's vault account
    events,           \* the events emitted so far (emit!), oldest first
    overflow_checks,  \* build profile: TRUE = arithmetic overflow panics, FALSE = it wraps
    calls,            \* number of successful instructions so far (bounds the exploration)
    last              \* the most recent instruction: its arguments when it succeeded,
                      \* its error when it failed (failed calls are steps of SpecAbort only)

vars == <<config, pools, bridge_locks, lp_supply, vault, events, overflow_checks, calls, last>>

-----------------------------------------------------------------------------
(* Bounds of the model *)

U64Bits == 16
MaxLocks == 2
MaxCalls == 4

(* Program constants *)

BPS_DENOMINATOR == 10000
MAX_FEE_RATE_BPS == 10000

-----------------------------------------------------------------------------
(* u64 arithmetic *)

U64Mod == 2 ^ U64Bits
U64Max == U64Mod - 1

None == -1

checked_add(a, b) == IF a + b > U64Max THEN None ELSE a + b

checked_sub(a, b) == IF b > a THEN None ELSE a - b

\* The product is formed only when it fits (a * b <= U64Max).
checked_mul(a, b) == IF a # 0 /\ b > U64Max \div a THEN None ELSE a * b

checked_div(a, b) == IF b = 0 THEN None ELSE a \div b

saturating_add(a, b) == IF a + b > U64Max THEN U64Max ELSE a + b

\* Plain `a * b` on u64: "panic" when the build checks overflow, else the
\* product modulo 2^width.
mul_overflows(a, b) == a # 0 /\ b > U64Max \div a

wrapping_mul(a, b) == (a * b) % U64Mod

-----------------------------------------------------------------------------
(* Identities, keys and inputs *)

Identities == {"admin", "relayer", "user"}

\* Callers of the instructions that are open to anyone.
Users == {"user"}

PoolIds == {"USDC", "USDT"}

\* The lock nonces the model keeps accounts for: the first ones of a pool
\* and the last two of the u64 range.
Seeds == (0 .. MaxLocks) \cup ((U64Max - 1) .. U64Max)

BigAmount == 2 ^ (U64Bits - 1) + 5000

Amounts == {0, 1, 4, BigAmount}

InitFeeRates == {0, 5000, 10001}

UpdateFeeRates == {5000, 10000, 10001}

MaxLockChoices == {4, U64Max}

Cooldowns == {0}

ChainIds == {1}

Recipients == {"0xR"}

Timestamps == {1000}

-----------------------------------------------------------------------------
(* Accounts *)

\* #[derive(Default)] Pool, not yet initialized (no account at the PDA).
DefaultPool ==
    [ initialized           |-> FALSE,
      total_liquidity       |-> 0,
      available_liquidity   |-> 0,
      locked_liquidity      |-> 0,
      fee_rate_bps          |-> 0,
      admin                 |-> "none",
      paused                |-> FALSE,
      max_lock_per_tx       |-> 0,
      lock_cooldown_seconds |-> 0,
      next_lock_nonce       |-> 0 ]

\* #[derive(Default)] BridgeLock, not yet initialized (no account at the PDA).
DefaultBridgeLock ==
    [ initialized          |-> FALSE,
      pool                 |-> "none",
      amount               |-> 0,
      nonce                |-> 0,
      destination_chain_id |-> 0,
      recipient_address    |-> "none",
      sender               |-> "none",
      released             |-> FALSE,
      locked_at            |-> 0 ]

LockKeys == PoolIds \X Seeds

\* A successful instruction and its arguments.
Call(op, caller, pool, amount, key) ==
    [ op |-> op, caller |-> caller, pool |-> pool, amount |-> amount, key |-> key,
      result |-> "Ok" ]

NoKey == <<"none", 0>>

\* The events of events.rs.
LiquidityDeposited(pool, depositor, stablecoin_amount, lp_tokens_minted, timestamp) ==
    [ event |-> "LiquidityDeposited", pool |-> pool, depositor |-> depositor,
      stablecoin_amount |-> stablecoin_amount, lp_tokens_minted |-> lp_tokens_minted,
      timestamp |-> timestamp ]

LiquidityWithdrawn(pool, withdrawer, stablecoin_amount, lp_tokens_burned, timestamp) ==
    [ event |-> "LiquidityWithdrawn", pool |-> pool, withdrawer |-> withdrawer,
      stablecoin_amount |-> stablecoin_amount, lp_tokens_burned |-> lp_tokens_burned,
      timestamp |-> timestamp ]

BridgeIntent(pool, sender, amount, destination_chain_id, recipient_address, nonce, timestamp) ==
    [ event |-> "BridgeIntent", pool |-> pool, sender |-> sender, amount |-> amount,
      destination_chain_id |-> destination_chain_id,
      recipient_address |-> recipient_address, nonce |-> nonce, timestamp |-> timestamp ]

BridgeReverted(pool, bridge_lock, amount, nonce, timestamp) ==
    [ event |-> "BridgeReverted", pool |-> pool, bridge_lock |-> bridge_lock,
      amount |-> amount, nonce |-> nonce, timestamp |-> timestamp ]

Init ==
    /\ config = [admin |-> "admin", relayer |-> "relayer", paused |-> FALSE]
    /\ pools = [p \in PoolIds |-> DefaultPool]
    /\ bridge_locks = [k \in LockKeys |-> DefaultBridgeLock]
    /\ lp_supply = [p \in PoolIds |-> 0]
    /\ vault = [p \in PoolIds |-> 0]
    /\ events = <<>>
    /\ overflow_checks \in BOOLEAN
    /\ calls = 0
    /\ last = Call("initialize_config", "admin", "none", 0, NoKey)

\* A successful instruction is counted.
Succeed(call) ==
    /\ calls < MaxCalls
    /\ calls' = calls + 1
    /\ last' = call
    /\ UNCHANGED overflow_checks

-----------------------------------------------------------------------------
(* initialize_pool *)

initialize_pool_error(p, admin, fee_rate_bps) ==
    IF pools[p].initialized THEN "AccountInUse"
    ELSE IF config.admin # admin THEN "UnauthorizedAdmin"
    ELSE IF ~(fee_rate_bps <= MAX_FEE_RATE_BPS) THEN "InvalidFeeRate"
    ELSE "Ok"

initialize_pool(p, admin, fee_rate_bps, max_lock_per_tx, lock_cooldown_seconds) ==
    LET err == initialize_pool_error(p, admin, fee_rate_bps)
        call == Call("initialize_pool", admin, p, fee_rate_bps, NoKey)
    IN  /\ err = "Ok"
        /\ Succeed(call)
        /\ pools' = [pools EXCEPT ![p] =
               [ initialized           |-> TRUE,
                 total_liquidity       |-> 0,
                 available_liquidity   |-> 0,
                 locked_liquidity      |-> 0,
                 fee_rate_bps          |-> fee_rate_bps,
                 admin                 |-> admin,
                 paused                |-> FALSE,
                 max_lock_per_tx       |-> max_lock_per_tx,
                 lock_cooldown_seconds |-> lock_cooldown_seconds,
                 next_lock_nonce       |-> 0 ]]
        /\ UNCHANGED <<config, bridge_locks, lp_supply, vault, events>>

-----------------------------------------------------------------------------
(* deposit_liquidity *)

\* `amount * fee_bps` is a plain multiplication: it panics on overflow when
\* the build checks overflow and wraps when it does not.
plain_mul(a, b) ==
    IF mul_overflows(a, b)
    THEN IF overflow_checks THEN None ELSE wrapping_mul(a, b)
    ELSE a * b

\* let fee = (amount * fee_bps) / 10_000;   (None: the multiplication panicked)
deposit_fee(amount, fee_bps) ==
    LET product == plain_mul(amount, fee_bps)
    IN  IF product = None THEN None ELSE product \div BPS_DENOMINATOR

\* Faulty variant: shares are always minted 1:1.
deposit_lp_tokens_one_to_one(available_liquidity, total_lp_supply, amount_after_fee) ==
    amount_after_fee

\* let lp_tokens = if pool.available_liquidity == 0 { amount_after_fee } else { ... }
deposit_lp_tokens(available_liquidity, total_lp_supply, amount_after_fee) ==
    IF available_liquidity = 0
    THEN amount_after_fee
    ELSE LET product == checked_mul(total_lp_supply, amount_after_fee)
         IN  IF product = None THEN None
             ELSE checked_div(product, available_liquidity)

\* token::transfer of `amount` into the vault: the payer must hold the amount
\* (`funded`) and the vault balance is a u64.
transfer_to_vault_ok(p, amount, funded) == funded /\ vault[p] + amount <= U64Max

\* token::mint_to: the mint's supply is a u64.
mint_to_ok(p, lp_tokens) == lp_supply[p] + lp_tokens <= U64Max

deposit_paused(p) == pools[p].paused \/ config.paused

\* Faulty variant: total_liquidity is credited with the amount after fee.
deposit_total_liquidity_net(pool, amount) ==
    checked_add(pool.total_liquidity, amount - deposit_fee(amount, pool.fee_rate_bps))

\* pool.total_liquidity.checked_add(amount)   (None: MathOverflow)
deposit_total_liquidity(pool, amount) == checked_add(pool.total_liquidity, amount)

deposit_liquidity_error(p, amount, funded) ==
    LET pool == pools[p]
        fee == deposit_fee(amount, pool.fee_rate_bps)
        amount_after_fee == checked_sub(amount, fee)
        lp_tokens == deposit_lp_tokens(pool.available_liquidity, lp_supply[p], amount_after_fee)
    IN  IF ~pool.initialized THEN "AccountNotInitialized"
        ELSE IF deposit_paused(p) THEN "PoolPaused"
        ELSE IF ~(amount > 0) THEN "ZeroStablecoinAmount"
        ELSE IF fee = None THEN "Panic"
        ELSE IF amount_after_fee = None THEN "MathOverflow"
        ELSE IF lp_tokens = None THEN "MathOverflow"
        ELSE IF ~(lp_tokens > 0) THEN "ZeroLpAmount"
        ELSE IF ~transfer_to_vault_ok(p, amount, funded) THEN "TokenError"
        ELSE IF ~mint_to_ok(p, lp_tokens) THEN "TokenError"
        ELSE IF deposit_total_liquidity(pool, amount) = None THEN "MathOverflow"
        ELSE IF checked_add(pool.available_liquidity, amount) = None THEN "MathOverflow"
        ELSE "Ok"

deposit_liquidity(p, depositor, amount, funded) ==
    LET pool == pools[p]
        err == deposit_liquidity_error(p, amount, funded)
        call == Call("deposit_liquidity", depositor, p, amount, NoKey)
        fee == deposit_fee(amount, pool.fee_rate_bps)
        amount_after_fee == checked_sub(amount, fee)
        lp_tokens == deposit_lp_tokens(pool.available_liquidity, lp_supply[p], amount_after_fee)
    IN  /\ err = "Ok"
        /\ Succeed(call)
        /\ vault' = [vault EXCEPT ![p] = @ + amount]
        /\ lp_supply' = [lp_supply EXCEPT ![p] = @ + lp_tokens]
        /\ pools' = [pools EXCEPT
               ![p].total_liquidity = deposit_total_liquidity(pool, amount),
               ![p].available_liquidity = checked_add(@, amount)]
        /\ \E now \in Timestamps :
               events' = Append(events,
                   LiquidityDeposited(p, depositor, amount, lp_tokens, now))
        /\ UNCHANGED <<config, bridge_locks>>

-----------------------------------------------------------------------------
(* withdraw_liquidity *)

\* Faulty variant: the ratio is inverted.
withdraw_stablecoin_out_inverted(available_liquidity, lp_amount, total_lp_supply) ==
    LET product == checked_mul(available_liquidity, total_lp_supply)
    IN  IF product = None THEN None ELSE checked_div(product, lp_amount)

\* Faulty variant: the payout is computed from the share amount alone.
withdraw_stablecoin_out_one_to_one(available_liquidity, lp_amount, total_lp_supply) ==
    IF lp_amount <= available_liquidity THEN lp_amount ELSE available_liquidity

\* let stablecoin_out = available_liquidity.checked_mul(lp_amount)?.checked_div(total_lp_supply)?
withdraw_stablecoin_out(available_liquidity, lp_amount, total_lp_supply) ==
    LET product == checked_mul(available_liquidity, lp_amount)
    IN  IF product = None THEN None ELSE checked_div(product, total_lp_supply)

\* token::burn: the withdrawer must hold lp_amount share tokens (`holds`),
\* which cannot be more than the whole supply.
burn_ok(p, lp_amount, holds) == holds /\ lp_amount <= lp_supply[p]

\* token::transfer out of the vault: the vault must hold the amount.
transfer_from_vault_ok(p, amount) == amount <= vault[p]

\* Faulty variant: withdraw reads the pool's flag only.
withdraw_paused_pool_only(p) == pools[p].paused

withdraw_paused(p) == pools[p].paused \/ config.paused

withdraw_liquidity_error(p, lp_amount, holds) ==
    LET pool == pools[p]
        total_lp_supply == lp_supply[p]
        stablecoin_out == withdraw_stablecoin_out(pool.available_liquidity, lp_amount, total_lp_supply)
    IN  IF ~pool.initialized THEN "AccountNotInitialized"
        ELSE IF withdraw_paused(p) THEN "PoolPaused"
        ELSE IF ~(lp_amount > 0) THEN "ZeroLpAmount"
        ELSE IF ~(total_lp_supply > 0) THEN "MathOverflow"
        ELSE IF stablecoin_out = None THEN "MathOverflow"
        ELSE IF ~(stablecoin_out > 0) THEN "ZeroStablecoinAmount"
        ELSE IF ~(stablecoin_out <= pool.available_liquidity) THEN "InsufficientLiquidity"
        ELSE IF ~burn_ok(p, lp_amount, holds) THEN "TokenError"
        ELSE IF ~transfer_from_vault_ok(p, stablecoin_out) THEN "TokenError"
        ELSE IF checked_sub(pool.total_liquidity, stablecoin_out) = None THEN "MathOverflow"
        ELSE IF checked_sub(pool.available_liquidity, stablecoin_out) = None THEN "MathOverflow"
        ELSE "Ok"

withdraw_liquidity(p, withdrawer, lp_amount, holds) ==
    LET pool == pools[p]
        err == withdraw_liquidity_error(p, lp_amount, holds)
        call == Call("withdraw_liquidity", withdrawer, p, lp_amount, NoKey)
        stablecoin_out == withdraw_stablecoin_out(pool.available_liquidity, lp_amount, lp_supply[p])
    IN  /\ err = "Ok"
        /\ Succeed(call)
        /\ lp_supply' = [lp_supply EXCEPT ![p] = @ - lp_amount]
        /\ vault' = [vault EXCEPT ![p] = @ - stablecoin_out]
        /\ pools' = [pools EXCEPT
               ![p].total_liquidity = checked_sub(@, stablecoin_out),
               ![p].available_liquidity = checked_sub(@, stablecoin_out)]
        /\ \E now \in Timestamps :
               events' = Append(events,
                   LiquidityWithdrawn(p, withdrawer, stablecoin_out, lp_amount, now))
        /\ UNCHANGED <<config, bridge_locks>>

-----------------------------------------------------------------------------
(* lock_for_bridge *)

lock_paused(p) == pools[p].paused \/ config.paused

\* Faulty variant: the counter wraps at the end of the u64 range.
lock_next_nonce_wrapping(next_lock_nonce) == (next_lock_nonce + 1) % U64Mod

\* Faulty variant: the counter is not advanced.
lock_next_nonce_not_advanced(next_lock_nonce) == next_lock_nonce

\* pool.next_lock_nonce = pool.next_lock_nonce.saturating_add(1);
lock_next_nonce(next_lock_nonce) == saturating_add(next_lock_nonce, 1)

\* Faulty variant: the lock is not added to total_liquidity.
lock_total_liquidity_not_added(pool, amount) == pool.total_liquidity

\* The running totals after a lock (None: a checked addition failed).
lock_total_liquidity(pool, amount) == checked_add(pool.total_liquidity, amount)

\* Faulty variant: the lock is not added to locked_liquidity.
lock_locked_liquidity_not_added(pool, amount) == pool.locked_liquidity

lock_locked_liquidity(pool, amount) == checked_add(pool.locked_liquidity, amount)

\* Faulty variant: the per-transaction limit is not enforced.
lock_within_limit_unchecked(pool, amount) == TRUE

\* require!(amount <= pool.max_lock_per_tx, LockAmountExceedsLimit)
lock_within_limit(pool, amount) == amount <= pool.max_lock_per_tx

\* `seed` is the nonce the client derived the bridge_lock address from.  The
\* `init` of the bridge_lock account (seeds [.., pool.next_lock_nonce]) runs
\* before the other constraints and before the handler body.
lock_for_bridge_error(p, amount, seed, funded) ==
    LET pool == pools[p]
    IN  IF ~pool.initialized THEN "AccountNotInitialized"
        ELSE IF seed # pool.next_lock_nonce THEN "ConstraintSeeds"
        ELSE IF bridge_locks[<<p, seed>>].initialized THEN "AccountInUse"
        ELSE IF lock_paused(p) THEN "PoolPaused"
        ELSE IF ~(amount > 0) THEN "ZeroStablecoinAmount"
        ELSE IF ~lock_within_limit(pool, amount) THEN "LockAmountExceedsLimit"
        ELSE IF ~transfer_to_vault_ok(p, amount, funded) THEN "TokenError"
        ELSE IF lock_total_liquidity(pool, amount) = None THEN "MathOverflow"
        ELSE IF lock_locked_liquidity(pool, amount) = None THEN "MathOverflow"
        ELSE "Ok"

\* emit!(BridgeIntent { pool, sender, amount, destination_chain_id,
\*                      recipient_address, nonce, timestamp })
lock_event(p, sender, amount, destination_chain_id, recipient_address, nonce, now) ==
    BridgeIntent(p, sender, amount, destination_chain_id, recipient_address, nonce, now)

lock_for_bridge(p, sender, amount, destination_chain_id, recipient_address, seed, funded, now) ==
    LET pool == pools[p]
        err == lock_for_bridge_error(p, amount, seed, funded)
        call == Call("lock_for_bridge", sender, p, amount, <<p, seed>>)
        nonce == pool.next_lock_nonce
    IN  /\ err = "Ok"
        /\ lock_next_nonce(nonce) \in Seeds
        /\ Succeed(call)
        /\ vault' = [vault EXCEPT ![p] = @ + amount]
        /\ bridge_locks' = [bridge_locks EXCEPT ![<<p, seed>>] =
               [ initialized          |-> TRUE,
                 pool                 |-> p,
                 amount               |-> amount,
                 nonce                |-> nonce,
                 destination_chain_id |-> destination_chain_id,
                 recipient_address    |-> recipient_address,
                 sender               |-> sender,
                 released             |-> FALSE,
                 locked_at            |-> now ]]
        /\ pools' = [pools EXCEPT
               ![p].next_lock_nonce = lock_next_nonce(nonce),
               ![p].total_liquidity = lock_total_liquidity(pool, amount),
               ![p].locked_liquidity = lock_locked_liquidity(pool, amount)]
        /\ events' = Append(events,
               lock_event(p, sender, amount, destination_chain_id, recipient_address,
                          nonce, now))
        /\ UNCHANGED <<config, lp_supply>>

-----------------------------------------------------------------------------
(* release_locked_liquidity *)

\* Faulty variant: release is gated by the pause flags like the other handlers.
release_paused_gated(p) == pools[p].paused \/ config.paused

\* Neither pause flag is read by the handler or by its account constraints.
release_paused(p) == FALSE

\* Faulty variant: the released flag is not checked.
release_already_released_unchecked(bridge_lock) == FALSE

\* require!(!bridge_lock.released, AlreadyReleased)
release_already_released(bridge_lock) == bridge_lock.released

\* Faulty variant: any signer may release.
release_authorized_any(relayer) == TRUE

\* constraint = config.relayer == relayer.key() @ UnauthorizedRelayer
release_authorized(relayer) == config.relayer = relayer

\* Faulty variant: the lock's pool is not compared with the pool passed.
release_lock_of_pool_unchecked(bridge_lock, p) == TRUE

\* constraint = bridge_lock.pool == pool.key() @ InvalidBridgeLock, and the
\* same require! at the head of the handler
release_lock_of_pool(bridge_lock, p) == bridge_lock.pool = p

\* Faulty variant: the record is closed when it is released.
release_record_closed(bridge_lock) == DefaultBridgeLock

\* bridge_lock.released = true; the account is kept (no `close`).
release_record(bridge_lock) == [bridge_lock EXCEPT !.released = TRUE]

\* Faulty variant: the released amount stays in locked_liquidity.
release_locked_after_kept(pool, amount) == pool.locked_liquidity

\* pool.locked_liquidity.checked_sub(amount)   (None: MathOverflow)
release_locked_after(pool, amount) == checked_sub(pool.locked_liquidity, amount)

release_locked_liquidity_error(p, relayer, key) ==
    LET pool == pools[p]
        bridge_lock == bridge_locks[key]
    IN  IF ~pool.initialized THEN "AccountNotInitialized"
        ELSE IF ~bridge_lock.initialized THEN "AccountNotInitialized"
        ELSE IF ~release_authorized(relayer) THEN "UnauthorizedRelayer"
        ELSE IF ~release_lock_of_pool(bridge_lock, p) THEN "InvalidBridgeLock"
        ELSE IF release_paused(p) THEN "PoolPaused"
        ELSE IF release_already_released(bridge_lock) THEN "AlreadyReleased"
        ELSE IF release_locked_after(pool, bridge_lock.amount) = None THEN "MathOverflow"
        ELSE IF checked_add(pool.available_liquidity, bridge_lock.amount) = None THEN "MathOverflow"
        ELSE "Ok"

\* Faulty variant: the event carries the nonce of the pool's counter.
release_event_pool_nonce(p, key, bridge_lock, now) ==
    BridgeReverted(p, key, bridge_lock.amount, pools[p].next_lock_nonce, now)

\* emit!(BridgeReverted { pool, bridge_lock, amount, nonce: bridge_lock.nonce, timestamp })
release_event(p, key, bridge_lock, now) ==
    BridgeReverted(p, key, bridge_lock.amount, bridge_lock.nonce, now)

release_locked_liquidity(p, relayer, key) ==
    LET err == release_locked_liquidity_error(p, relayer, key)
        call == Call("release_locked_liquidity", relayer, p, 0, key)
        amount == bridge_locks[key].amount
    IN  /\ err = "Ok"
        /\ Succeed(call)
        /\ bridge_locks' = [bridge_locks EXCEPT ![key] = release_record(@)]
        /\ pools' = [pools EXCEPT
               ![p].locked_liquidity = release_locked_after(pools[p], amount),
               ![p].available_liquidity = checked_add(@, amount)]
        /\ \E now \in Timestamps :
               events' = Append(events, release_event(p, key, bridge_locks[key], now))
        /\ UNCHANGED <<config, lp_supply, vault>>

-----------------------------------------------------------------------------
(* update_fee_rate, pause_pool, resume_pool *)

\* Faulty variant: any signer passes as the pool's admin.
pool_admin_authorized_any(p, admin) == TRUE

\* constraint = pool.admin == admin.key() @ UnauthorizedAdmin
pool_admin_authorized(p, admin) == pools[p].admin = admin

pool_admin_error(p, admin) ==
    IF ~pools[p].initialized THEN "AccountNotInitialized"
    ELSE IF ~pool_admin_authorized(p, admin) THEN "UnauthorizedAdmin"
    ELSE "Ok"

update_fee_rate_error(p, admin, fee_rate_bps) ==
    IF pool_admin_error(p, admin) # "Ok" THEN pool_admin_error(p, admin)
    ELSE IF ~(fee_rate_bps <= MAX_FEE_RATE_BPS) THEN "InvalidFeeRate"
    ELSE "Ok"

update_fee_rate(p, admin, fee_rate_bps) ==
    LET err == update_fee_rate_error(p, admin, fee_rate_bps)
        call == Call("update_fee_rate", admin, p, fee_rate_bps, NoKey)
    IN  /\ err = "Ok"
        /\ Succeed(call)
        /\ pools' = [pools EXCEPT ![p].fee_rate_bps = fee_rate_bps]
        /\ UNCHANGED <<config, bridge_locks, lp_supply, vault, events>>

\* Faulty variant: pausing one pool pauses every pool.
pause_pool_update_all(p) == [q \in PoolIds |-> [pools[q] EXCEPT !.paused = TRUE]]

\* The Pool account after pause_pool / resume_pool.
pause_pool_update(p) == [pools EXCEPT ![p].paused = TRUE]

resume_pool_update(p) == [pools EXCEPT ![p].paused = FALSE]

pause_pool(p, admin) ==
    LET err == pool_admin_error(p, admin)
        call == Call("pause_pool", admin, p, 0, NoKey)
    IN  /\ err = "Ok"
        /\ Succeed(call)
        /\ pools' = pause_pool_update(p)
        /\ UNCHANGED <<config, bridge_locks, lp_supply, vault, events>>

resume_pool(p, admin) ==
    LET err == pool_admin_error(p, admin)
        call == Call("resume_pool", admin, p, 0, NoKey)
    IN  /\ err = "Ok"
        /\ Succeed(call)
        /\ pools' = resume_pool_update(p)
        /\ UNCHANGED <<config, bridge_locks, lp_supply, vault, events>>

-----------------------------------------------------------------------------
Next ==
    \/ \E p \in PoolIds, a \in Identities, f \in InitFeeRates,
          m \in MaxLockChoices, c \in Cooldowns :
            initialize_pool(p, a, f, m, c)
    \/ \E p \in PoolIds, u \in Users, amt \in Amounts, funded \in BOOLEAN :
            deposit_liquidity(p, u, amt, funded)
    \/ \E p \in PoolIds, u \in Users, lp \in Amounts, holds \in BOOLEAN :
            withdraw_liquidity(p, u, lp, holds)
    \/ \E p \in PoolIds, u \in Users, amt \in Amounts, d \in ChainIds,
          r \in Recipients, seed \in Seeds, funded \in BOOLEAN, now \in Timestamps :
            lock_for_bridge(p, u, amt, d, r, seed, funded, now)
    \/ \E p \in PoolIds, u \in Identities, key \in LockKeys :
            release_locked_liquidity(p, u, key)
    \/ \E p \in PoolIds, a \in Identities, f \in UpdateFeeRates :
            update_fee_rate(p, a, f)
    \/ \E p \in PoolIds, a \in Identities : pause_pool(p, a)
    \/ \E p \in PoolIds, a \in Identities : resume_pool(p, a)

Spec == Init /\ [][Next]_vars

-----------------------------------------------------------------------------
(* The global pause switch.  lib.rs has no instruction that writes            *)
(* config.paused after initialize_config.  The specification describes        *)
(* admin-authorized pause / unpause calls on ProtocolConfig; they are         *)
(* modelled here from that description and are part of SpecGlobalPause only.  *)

set_config_paused(admin, paused) ==
    /\ config.admin = admin
    /\ Succeed(Call("set_config_paused", admin, "none", 0, NoKey))
    /\ config' = [config EXCEPT !.paused = paused]
    /\ UNCHANGED <<pools, bridge_locks, lp_supply, vault, events>>

NextGlobalPause ==
    \/ Next
    \/ \E a \in Identities, f \in BOOLEAN : set_config_paused(a, f)

SpecGlobalPause == Init /\ [][NextGlobalPause]_vars

-----------------------------------------------------------------------------
(* Instructions that return an error.                                        *)
(*                                                                           *)
(* A handler works on the deserialized accounts (Account<'info, T>) and on   *)
(* the token program through CPI, and leaves with `?` / require! at the      *)
(* first error.  X_written gives the accounts as the instruction had         *)
(* written them when it returned: the `init` of its account, the in-memory   *)
(* fields assigned and the CPIs completed before the failing statement (no   *)
(* event: emit! is the last statement of a handler).                         *)
(* commit is what the program and the runtime keep of it: the writes of an   *)
(* instruction that returns Ok, and nothing of one that returns an error.    *)

Accounts ==
    [ config |-> config, pools |-> pools, bridge_locks |-> bridge_locks,
      lp_supply |-> lp_supply, vault |-> vault, events |-> events ]

\* Faulty variant: the writes made before the error are kept.
commit_partial(err, written) == written

commit(err, written) == IF err = "Ok" THEN written ELSE Accounts

\* A failed instruction is recorded with its error.  It is not counted; one
\* failed instruction is recorded between two successful ones, and the
\* exploration leaves room for a successful instruction after it.
Failed(op, err, written) ==
    LET kept == commit(err, written)
    IN  /\ calls + 1 < MaxCalls
        /\ last.result = "Ok"
        /\ err # "Ok"
        /\ UNCHANGED calls
        /\ last' = [ op |-> op, caller |-> "none", pool |-> "none", amount |-> 0,
                     key |-> NoKey, result |-> err ]
        /\ config' = kept.config
        /\ pools' = kept.pools
        /\ bridge_locks' = kept.bridge_locks
        /\ lp_supply' = kept.lp_supply
        /\ vault' = kept.vault
        /\ events' = kept.events
        /\ UNCHANGED overflow_checks

\* The config account exists: its `init` fails.
initialize_config_failed(admin, relayer) ==
    Failed("initialize_config", "AccountInUse", Accounts)

\* The pool account is created by `init` before the admin constraint and the
\* fee check are evaluated.
initialize_pool_written(p, admin, fee_rate_bps) ==
    IF initialize_pool_error(p, admin, fee_rate_bps) = "AccountInUse"
    THEN Accounts
    ELSE [Accounts EXCEPT !.pools[p].initialized = TRUE]

initialize_pool_failed(p, admin, fee_rate_bps) ==
    Failed("initialize_pool", initialize_pool_error(p, admin, fee_rate_bps),
           initialize_pool_written(p, admin, fee_rate_bps))

\* transfer, then mint_to, then the two running totals.
deposit_liquidity_written(p, amount, funded) ==
    LET pool == pools[p]
        fee == deposit_fee(amount, pool.fee_rate_bps)
        amount_after_fee == checked_sub(amount, fee)
        lp_tokens == deposit_lp_tokens(pool.available_liquidity, lp_supply[p], amount_after_fee)
        transferred == [Accounts EXCEPT !.vault[p] = @ + amount]
        minted == [transferred EXCEPT !.lp_supply[p] = @ + lp_tokens]
        total_added == [minted EXCEPT !.pools[p].total_liquidity = @ + amount]
    IN  IF ~pool.initialized \/ deposit_paused(p) \/ ~(amount > 0)
           \/ fee = None \/ amount_after_fee = None \/ lp_tokens = None
           \/ ~(lp_tokens > 0) \/ ~transfer_to_vault_ok(p, amount, funded)
        THEN Accounts
        ELSE IF ~mint_to_ok(p, lp_tokens) THEN transferred
        ELSE IF deposit_total_liquidity(pool, amount) = None THEN minted
        ELSE total_added

deposit_liquidity_failed(p, depositor, amount, funded) ==
    Failed("deposit_liquidity", deposit_liquidity_error(p, amount, funded),
           deposit_liquidity_written(p, amount, funded))

\* burn, then transfer, then the two running totals.
withdraw_liquidity_written(p, lp_amount, holds) ==
    LET pool == pools[p]
        stablecoin_out == withdraw_stablecoin_out(pool.available_liquidity, lp_amount, lp_supply[p])
        burned == [Accounts EXCEPT !.lp_supply[p] = @ - lp_amount]
        transferred == [burned EXCEPT !.vault[p] = @ - stablecoin_out]
        total_subtracted == [transferred EXCEPT !.pools[p].total_liquidity = @ - stablecoin_out]
    IN  IF ~pool.initialized \/ withdraw_paused(p) \/ ~(lp_amount > 0)
           \/ ~(lp_supply[p] > 0) \/ stablecoin_out = None \/ ~(stablecoin_out > 0)
           \/ ~(stablecoin_out <= pool.available_liquidity) \/ ~burn_ok(p, lp_amount, holds)
        THEN Accounts
        ELSE IF ~transfer_from_vault_ok(p, stablecoin_out) THEN burned
        ELSE IF checked_sub(pool.total_liquidity, stablecoin_out) = None THEN transferred
        ELSE total_subtracted

withdraw_liquidity_failed(p, withdrawer, lp_amount, holds) ==
    Failed("withdraw_liquidity", withdraw_liquidity_error(p, lp_amount, holds),
           withdraw_liquidity_written(p, lp_amount, holds))

\* `init` of the bridge_lock account, then next_lock_nonce, then the
\* transfer, then the record, then the two running totals.
lock_for_bridge_written(p, sender, amount, destination_chain_id, recipient_address, seed, funded, now) ==
    LET pool == pools[p]
        key == <<p, seed>>
        created == [Accounts EXCEPT !.bridge_locks[key].initialized = TRUE]
        advanced == [created EXCEPT
                        !.pools[p].next_lock_nonce = lock_next_nonce(pool.next_lock_nonce)]
        transferred == [advanced EXCEPT !.vault[p] = @ + amount]
        recorded == [transferred EXCEPT !.bridge_locks[key] =
                        [ initialized          |-> TRUE,
                          pool                 |-> p,
                          amount               |-> amount,
                          nonce                |-> pool.next_lock_nonce,
                          destination_chain_id |-> destination_chain_id,
                          recipient_address    |-> recipient_address,
                          sender               |-> sender,
                          released             |-> FALSE,
                          locked_at            |-> now ]]
        total_added == [recorded EXCEPT !.pools[p].total_liquidity = @ + amount]
    IN  IF ~pool.initialized \/ seed # pool.next_lock_nonce
           \/ bridge_locks[key].initialized
        THEN Accounts
        ELSE IF lock_paused(p) \/ ~(amount > 0) \/ ~lock_within_limit(pool, amount)
        THEN created
        ELSE IF ~transfer_to_vault_ok(p, amount, funded) THEN advanced
        ELSE IF lock_total_liquidity(pool, amount) = None THEN recorded
        ELSE total_added

lock_for_bridge_failed(p, sender, amount, destination_chain_id, recipient_address, seed, funded, now) ==
    Failed("lock_for_bridge", lock_for_bridge_error(p, amount, seed, funded),
           lock_for_bridge_written(p, sender, amount, destination_chain_id,
                                   recipient_address, seed, funded, now))

\* bridge_lock.released = true, then the two running totals.
release_locked_liquidity_written(p, relayer, key) ==
    LET pool == pools[p]
        bridge_lock == bridge_locks[key]
        marked == [Accounts EXCEPT !.bridge_locks[key] = release_record(@)]
        unlocked == [marked EXCEPT !.pools[p].locked_liquidity = @ - bridge_lock.amount]
    IN  IF ~pool.initialized \/ ~bridge_lock.initialized \/ ~release_authorized(relayer)
           \/ ~release_lock_of_pool(bridge_lock, p) \/ release_paused(p)
           \/ release_already_released(bridge_lock)
        THEN Accounts
        ELSE IF release_locked_after(pool, bridge_lock.amount) = None THEN marked
        ELSE unlocked

release_locked_liquidity_failed(p, relayer, key) ==
    Failed("release_locked_liquidity", release_locked_liquidity_error(p, relayer, key),
           release_locked_liquidity_written(p, relayer, key))

\* update_fee_rate, pause_pool and resume_pool assign their field last.
update_fee_rate_failed(p, admin, fee_rate_bps) ==
    Failed("update_fee_rate", update_fee_rate_error(p, admin, fee_rate_bps), Accounts)

pause_pool_failed(p, admin) ==
    Failed("pause_pool", pool_admin_error(p, admin), Accounts)

resume_pool_failed(p, admin) ==
    Failed("resume_pool", pool_admin_error(p, admin), Accounts)

NextAbort ==
    \/ Next
    \/ \E a \in Identities, r \in Identities : initialize_config_failed(a, r)
    \/ \E p \in PoolIds, a \in Identities, f \in InitFeeRates :
            initialize_pool_failed(p, a, f)
    \/ \E p \in PoolIds, u \in Users, amt \in Amounts, funded \in BOOLEAN :
            deposit_liquidity_failed(p, u, amt, funded)
    \/ \E p \in PoolIds, u \in Users, lp \in Amounts, holds \in BOOLEAN :
            withdraw_liquidity_failed(p, u, lp, holds)
    \/ \E p \in PoolIds, u \in Users, amt \in Amounts, d \in ChainIds,
          r \in Recipients, seed \in Seeds, funded \in BOOLEAN, now \in Timestamps :
            lock_for_bridge_failed(p, u, amt, d, r, seed, funded, now)
    \/ \E p \in PoolIds, u \in Identities, key \in LockKeys :
            release_locked_liquidity_failed(p, u, key)
    \/ \E p \in PoolIds, a \in Identities, f \in UpdateFeeRates :
            update_fee_rate_failed(p, a, f)
    \/ \E p \in PoolIds, a \in Identities : pause_pool_failed(p, a)
    \/ \E p \in PoolIds, a \in Identities : resume_pool_failed(p, a)

SpecAbort == Init /\ [][NextAbort]_vars

-----------------------------------------------------------------------------
(* A pool at the end of its nonce range.  The USDC pool has been through    *)
(* U64Max - 1 rounds of deposit 4 / lock 1 / release / withdraw all: it is  *)
(* empty, every lock record so far is released and next_lock_nonce is       *)
(* U64Max - 1.  Of those records the model keeps the ones with nonce        *)
(* 0 .. MaxLocks, and the event log starts here.  The call counter starts   *)
(* at 1: it bounds the calls that follow the pool's initialization.         *)

ReleasedLock(p, nonce) ==
    [ initialized          |-> TRUE,
      pool                 |-> p,
      amount               |-> 1,
      nonce                |-> nonce,
      destination_chain_id |-> 1,
      recipient_address    |-> "0xR",
      sender               |-> "user",
      released             |-> TRUE,
      locked_at            |-> 1000 ]

InitNonceMax ==
    /\ config = [admin |-> "admin", relayer |-> "relayer", paused |-> FALSE]
    /\ pools = [p \in PoolIds |->
           IF p = "USDC"
           THEN [ initialized           |-> TRUE,
                  total_liquidity       |-> 0,
                  available_liquidity   |-> 0,
                  locked_liquidity      |-> 0,
                  fee_rate_bps          |-> 0,
                  admin                 |-> "admin",
                  paused                |-> FALSE,
                  max_lock_per_tx       |-> 4,
                  lock_cooldown_seconds |-> 0,
                  next_lock_nonce       |-> U64Max - 1 ]
           ELSE DefaultPool]
    /\ bridge_locks = [k \in LockKeys |->
           IF k[1] = "USDC" /\ k[2] <= MaxLocks
           THEN ReleasedLock(k[1], k[2])
           ELSE DefaultBridgeLock]
    /\ lp_supply = [p \in PoolIds |-> 0]
    /\ vault = [p \in PoolIds |-> 0]
    /\ events = <<>>
    /\ overflow_checks \in BOOLEAN
    /\ calls = 1
    /\ last = Call("withdraw_liquidity", "user", "USDC", 4, NoKey)

SpecNonceMax == InitNonceMax /\ [][Next]_vars

TypeOK ==
    /\ \A p \in PoolIds :
        /\ pools[p].total_liquidity \in 0 .. U64Max
        /\ pools[p].available_liquidity \in 0 .. U64Max
        /\ pools[p].locked_liquidity \in 0 .. U64Max
        /\ pools[p].next_lock_nonce \in 0 .. U64Max
        /\ lp_supply[p] \in 0 .. U64Max
        /\ vault[p] \in 0 .. U64Max
    /\ calls \in 0 .. MaxCalls

-----------------------------------------------------------------------------
(* Vocabulary of the properties *)

\* The step is a successful call of instruction `op`.
IsCall(op) == calls' = calls + 1 /\ last'.op = op /\ last'.result = "Ok"

\* The BridgeLock accounts that exist and belong to pool p.
LocksOf(p) == {k \in LockKeys : bridge_locks[k].initialized /\ bridge_locks[k].pool = p}

ExistingLocks == {k \in LockKeys : bridge_locks[k].initialized}

InitializedPools == {p \in PoolIds : pools[p].initialized}

-----------------------------------------------------------------------------
\* C1 (Invariant I1): in every reachable state every pool satisfies
\* total_liquidity = available_liquidity + locked_liquidity.
C1_InvariantI1 ==
    \A p \in PoolIds :
        pools[p].total_liquidity =
            pools[p].available_liquidity + pools[p].locked_liquidity

\* A release has just happened on a pool that still has locked and
\* available liquidity.
C1_Witness ==
    /\ last.op = "release_locked_liquidity"
    /\ pools[last.pool].locked_liquidity > 0
    /\ pools[last.pool].available_liquidity > 0

-----------------------------------------------------------------------------
\* C2 (Invariant I2, exactly-once release): a lock record is created with
\* released = FALSE; released becomes TRUE only in a successful release of
\* that record and is never reset; no release of an already released record
\* succeeds, whoever calls it and whichever pool is passed (so nothing is
\* credited twice), and the relayer's release of it with the record's own
\* pool ends with AlreadyReleased.
C2_ReleasedState ==
    \A k \in ExistingLocks :
        bridge_locks[k].released =>
            /\ \A p \in PoolIds, c \in Identities :
                   release_locked_liquidity_error(p, c, k) # "Ok"
            /\ release_locked_liquidity_error(bridge_locks[k].pool, config.relayer, k)
                   = "AlreadyReleased"

C2_ReleasedStep ==
    \A k \in LockKeys :
        /\ (~bridge_locks[k].initialized /\ bridge_locks'[k].initialized)
               => ~bridge_locks'[k].released
        /\ (bridge_locks[k].released # bridge_locks'[k].released)
               => /\ bridge_locks[k].initialized
                  /\ ~bridge_locks[k].released
                  /\ IsCall("release_locked_liquidity")
                  /\ last'.key = k
        /\ (bridge_locks[k].initialized /\ bridge_locks[k].released)
               => /\ bridge_locks'[k] = bridge_locks[k]
                  /\ ~(IsCall("release_locked_liquidity") /\ last'.key = k)

C2_ExactlyOnceRelease == [](C2_ReleasedState) /\ [][C2_ReleasedStep]_vars

\* A lock has been released and a second release of it is rejected.
C2_Witness ==
    /\ last.op = "release_locked_liquidity"
    /\ bridge_locks[last.key].released
    /\ release_locked_liquidity_error(last.pool, config.relayer, last.key)
           = "AlreadyReleased"

-----------------------------------------------------------------------------
\* C3 (nonce uniqueness): with N lock records in a pool (one per successful
\* lock_for_bridge), the nonces stored in them are exactly 0 .. N-1, each
\* record carries the nonce of its address, next_lock_nonce = N, and no call
\* that addresses an existing record (a second caller that observed the same
\* next_lock_nonce) succeeds.
C3_NonceUniqueness ==
    \A p \in InitializedPools :
        LET N == Cardinality(LocksOf(p))
        IN  /\ {bridge_locks[k].nonce : k \in LocksOf(p)} = 0 .. (N - 1)
            /\ \A k \in LocksOf(p) : k[1] = p /\ bridge_locks[k].nonce = k[2]
            /\ pools[p].next_lock_nonce = N
            /\ \A k \in LocksOf(p), amt \in Amounts, funded \in BOOLEAN :
                   lock_for_bridge_error(p, amt, k[2], funded) # "Ok"

\* Two locks have succeeded on one pool.
C3_Witness ==
    /\ last.op = "lock_for_bridge"
    /\ Cardinality(LocksOf(last.pool)) = 2
    /\ pools[last.pool].next_lock_nonce = 2

-----------------------------------------------------------------------------
\* C4 (rate limit): no lock_for_bridge with amount > max_lock_per_tx
\* succeeds; when the call passes the checks that come before the limit
\* (the lock address is the one for next_lock_nonce, the pool is not
\* paused) it ends with LockAmountExceedsLimit; every lock record has
\* 0 < amount <= max_lock_per_tx of its pool.
C4_RateLimit ==
    /\ \A p \in InitializedPools, amt \in Amounts, seed \in Seeds, funded \in BOOLEAN :
           amt > pools[p].max_lock_per_tx =>
               /\ lock_for_bridge_error(p, amt, seed, funded) # "Ok"
               /\ (seed = pools[p].next_lock_nonce /\ ~lock_paused(p))
                      => lock_for_bridge_error(p, amt, seed, funded)
                             = "LockAmountExceedsLimit"
    /\ \A k \in ExistingLocks :
           /\ bridge_locks[k].amount > 0
           /\ bridge_locks[k].amount <= pools[bridge_locks[k].pool].max_lock_per_tx

\* A pool holds a lock at its limit and rejects a larger one.
C4_Witness ==
    \E p \in InitializedPools :
        /\ \E k \in LocksOf(p) : bridge_locks[k].amount = pools[p].max_lock_per_tx
        /\ lock_for_bridge_error(p, BigAmount, pools[p].next_lock_nonce, TRUE)
               = "LockAmountExceedsLimit"

-----------------------------------------------------------------------------
\* The global pause flag is written by initialize_config alone: no
\* instruction sets it, so it is FALSE in every reachable state.
GlobalPauseNeverSet == config.paused = FALSE

-----------------------------------------------------------------------------
\* C5 (global pause gating): while config.paused is TRUE no deposit,
\* withdraw or lock succeeds on any pool, and each ends with PoolPaused (for
\* a lock: when the lock address is the one for next_lock_nonce), while the
\* relayer's release of every unreleased lock still succeeds.
C5_GlobalPauseGating ==
    config.paused =>
        /\ \A p \in InitializedPools, amt \in Amounts, ok \in BOOLEAN :
               /\ deposit_liquidity_error(p, amt, ok) = "PoolPaused"
               /\ withdraw_liquidity_error(p, amt, ok) = "PoolPaused"
               /\ \A seed \in Seeds :
                      /\ lock_for_bridge_error(p, amt, seed, ok) # "Ok"
                      /\ seed = pools[p].next_lock_nonce
                             => lock_for_bridge_error(p, amt, seed, ok) = "PoolPaused"
        /\ \A k \in ExistingLocks :
               ~bridge_locks[k].released =>
                   release_locked_liquidity_error(bridge_locks[k].pool, config.relayer, k) = "Ok"

\* A lock has just been released while the protocol is paused.
C5_Witness ==
    /\ config.paused
    /\ last.op = "release_locked_liquidity"
    /\ bridge_locks[last.key].released

-----------------------------------------------------------------------------
\* C6 (per-pool pause is isolated): while a pool is paused no deposit,
\* withdraw or lock on it succeeds, and each ends with PoolPaused (for a
\* lock: when the lock address is the one for next_lock_nonce); the same
\* calls on a pool that is not paused never end with PoolPaused, whatever
\* the flag of the other pools; paused changes only in pause_pool /
\* resume_pool of that pool; and these two instructions change nothing but
\* the paused flag of the pool they are called on.
C6_PausedState ==
    \A p \in InitializedPools, amt \in Amounts, ok \in BOOLEAN :
        IF pools[p].paused
        THEN /\ deposit_liquidity_error(p, amt, ok) = "PoolPaused"
             /\ withdraw_liquidity_error(p, amt, ok) = "PoolPaused"
             /\ \A seed \in Seeds :
                    /\ lock_for_bridge_error(p, amt, seed, ok) # "Ok"
                    /\ seed = pools[p].next_lock_nonce
                           => lock_for_bridge_error(p, amt, seed, ok) = "PoolPaused"
        ELSE /\ deposit_liquidity_error(p, amt, ok) # "PoolPaused"
             /\ withdraw_liquidity_error(p, amt, ok) # "PoolPaused"
             /\ \A seed \in Seeds :
                    lock_for_bridge_error(p, amt, seed, ok) # "PoolPaused"

C6_PauseStep ==
    /\ \A p \in PoolIds :
           pools'[p].paused # pools[p].paused
               => /\ IsCall("pause_pool") \/ IsCall("resume_pool")
                  /\ last'.pool = p
    /\ (IsCall("pause_pool") \/ IsCall("resume_pool"))
           => /\ pools' = [pools EXCEPT
                      ![last'.pool].paused = (last'.op = "pause_pool")]
              /\ UNCHANGED <<config, bridge_locks, lp_supply, vault>>

C6_PoolPauseIsolated == [](C6_PausedState) /\ [][C6_PauseStep]_vars

\* A deposit has just succeeded on one pool while another pool is paused.
C6_Witness ==
    /\ last.op = "deposit_liquidity"
    /\ ~pools[last.pool].paused
    /\ \E q \in InitializedPools : q # last.pool /\ pools[q].paused

-----------------------------------------------------------------------------
\* C7 (locked funds are never trapped): for every lock record that is not
\* released, the release called by config.relayer with the record's own pool
\* succeeds, whatever the pause flags.
C7_ReleaseAlwaysPossible ==
    \A k \in ExistingLocks :
        ~bridge_locks[k].released =>
            release_locked_liquidity_error(bridge_locks[k].pool, config.relayer, k) = "Ok"

\* A lock of a paused pool has just been released.
C7_Witness ==
    /\ last.op = "release_locked_liquidity"
    /\ pools[last.pool].paused
    /\ bridge_locks[last.key].released

-----------------------------------------------------------------------------
\* C8 (deposit share accounting): a successful deposit of `amount`, with
\* net = amount - floor(amount * fee_rate_bps / 10000), mints net shares when
\* available_liquidity = 0 and floor(share supply * net / available_liquidity)
\* shares otherwise (values before the call), moves the whole amount into
\* the vault and adds it to total_liquidity and available_liquidity, and
\* leaves locked_liquidity unchanged.
C8_DepositStep ==
    IsCall("deposit_liquidity") =>
        LET p == last'.pool
            amount == last'.amount
            pool == pools[p]
            fee == (amount * pool.fee_rate_bps) \div BPS_DENOMINATOR
            net == amount - fee
            shares == IF pool.available_liquidity = 0
                      THEN net
                      ELSE (lp_supply[p] * net) \div pool.available_liquidity
        IN  /\ lp_supply' = [lp_supply EXCEPT ![p] = @ + shares]
            /\ vault' = [vault EXCEPT ![p] = @ + amount]
            /\ pools' = [pools EXCEPT
                   ![p].total_liquidity = @ + amount,
                   ![p].available_liquidity = @ + amount]

C8_DepositShareAccounting == [][C8_DepositStep]_vars

\* The same statement for the builds in which arithmetic overflow panics.
C8_DepositShareAccountingChecked == [][overflow_checks => C8_DepositStep]_vars

-----------------------------------------------------------------------------
\* C9 (first depositor gets shares 1:1): on a pool that is not paused and
\* whose share supply is 0, a deposit of amount > 0 with net amount > 0
\* succeeds and mints exactly net shares (the depositor is funded and neither
\* the fee product nor the running totals overflow).
C9_FirstDepositorOneToOne ==
    \A p \in InitializedPools, amt \in Amounts :
        LET pool == pools[p]
            fee == (amt * pool.fee_rate_bps) \div BPS_DENOMINATOR
            net == amt - fee
        IN  ( /\ ~deposit_paused(p)
              /\ lp_supply[p] = 0
              /\ amt > 0
              /\ net > 0
              /\ ~mul_overflows(amt, pool.fee_rate_bps)
              /\ vault[p] + amt <= U64Max
              /\ pool.total_liquidity + amt <= U64Max )
                => /\ deposit_liquidity_error(p, amt, TRUE) = "Ok"
                   /\ deposit_lp_tokens(pool.available_liquidity, lp_supply[p],
                                        amt - deposit_fee(amt, pool.fee_rate_bps)) = net

\* The same statement for the pools that have no available liquidity.
C9_FirstDepositorOnEmptyPool ==
    \A p \in InitializedPools, amt \in Amounts :
        LET pool == pools[p]
            fee == (amt * pool.fee_rate_bps) \div BPS_DENOMINATOR
            net == amt - fee
        IN  ( /\ ~deposit_paused(p)
              /\ pool.available_liquidity = 0
              /\ amt > 0
              /\ net > 0
              /\ ~mul_overflows(amt, pool.fee_rate_bps)
              /\ vault[p] + amt <= U64Max
              /\ pool.total_liquidity + amt <= U64Max )
                => /\ deposit_liquidity_error(p, amt, TRUE) = "Ok"
                   /\ deposit_lp_tokens(pool.available_liquidity, lp_supply[p],
                                        amt - deposit_fee(amt, pool.fee_rate_bps)) = net

-----------------------------------------------------------------------------
\* C10 (withdraw payout): a successful withdraw of lp_amount shares pays
\* floor(available_liquidity * lp_amount / share supply) of the values before
\* the call: it burns lp_amount shares, takes the payout out of the vault and
\* out of total_liquidity and available_liquidity, and leaves
\* locked_liquidity, next_lock_nonce, every other pool field and every lock
\* record unchanged; a withdraw whose payout is 0 ends with
\* ZeroStablecoinAmount when it passes the checks before it.
C10_PayoutIsZero(available_liquidity, lp_amount, total_lp_supply) ==
    available_liquidity = 0 \/ lp_amount <= (total_lp_supply - 1) \div available_liquidity

C10_ZeroPayout ==
    \A p \in InitializedPools, lp \in Amounts, holds \in BOOLEAN :
        ( /\ ~withdraw_paused(p)
          /\ lp > 0
          /\ lp_supply[p] > 0
          /\ C10_PayoutIsZero(pools[p].available_liquidity, lp, lp_supply[p]) )
            => withdraw_liquidity_error(p, lp, holds) = "ZeroStablecoinAmount"

C10_WithdrawStep ==
    IsCall("withdraw_liquidity") =>
        LET p == last'.pool
            lp_amount == last'.amount
            payout == (pools[p].available_liquidity * lp_amount) \div lp_supply[p]
        IN  /\ lp_amount > 0
            /\ payout > 0
            /\ lp_supply' = [lp_supply EXCEPT ![p] = @ - lp_amount]
            /\ vault' = [vault EXCEPT ![p] = @ - payout]
            /\ pools' = [pools EXCEPT
                   ![p].total_liquidity = @ - payout,
                   ![p].available_liquidity = @ - payout]
            /\ UNCHANGED <<bridge_locks, config>>

C10_WithdrawPayout == [](C10_ZeroPayout) /\ [][C10_WithdrawStep]_vars

\* A withdraw has just succeeded on a pool whose shares are not worth 1:1.
C10_Witness ==
    /\ last.op = "withdraw_liquidity"
    /\ lp_supply[last.pool] > 0
    /\ pools[last.pool].available_liquidity > lp_supply[last.pool]

-----------------------------------------------------------------------------
\* The shares a deposit of `amount` is worth: net = amount minus
\* floor(amount * fee_rate_bps / 10000), 1:1 when the pool has no available
\* liquidity, floor(share supply * net / available_liquidity) otherwise.
DepositNet(p, amount) ==
    amount - (amount * pools[p].fee_rate_bps) \div BPS_DENOMINATOR

DepositShares(p, amount) ==
    IF pools[p].available_liquidity = 0
    THEN DepositNet(p, amount)
    ELSE (lp_supply[p] * DepositNet(p, amount)) \div pools[p].available_liquidity

\* C11 (dust rejection): on a pool that is not paused, every deposit of
\* amount > 0 whose share amount is 0 (net = 0, or
\* floor(share supply * net / available_liquidity) = 0) ends with
\* ZeroLpAmount, so it moves no token, mints no share and leaves the totals
\* unchanged.
C11_DustRejection ==
    \A p \in InitializedPools, amt \in Amounts, funded \in BOOLEAN :
        (~deposit_paused(p) /\ amt > 0 /\ DepositShares(p, amt) = 0)
            => deposit_liquidity_error(p, amt, funded) = "ZeroLpAmount"

\* The same statement for the deposits whose fee product fits in a u64.
C11_DustRejectionInRange ==
    \A p \in InitializedPools, amt \in Amounts, funded \in BOOLEAN :
        ( /\ ~deposit_paused(p) /\ amt > 0 /\ DepositShares(p, amt) = 0
          /\ ~mul_overflows(amt, pools[p].fee_rate_bps) )
            => deposit_liquidity_error(p, amt, funded) = "ZeroLpAmount"

\* A deposit worth 0 shares is rejected with ZeroLpAmount.
C11_DustRejected ==
    \E p \in InitializedPools, amt \in Amounts :
        /\ ~deposit_paused(p) /\ amt > 0 /\ DepositShares(p, amt) = 0
        /\ deposit_liquidity_error(p, amt, TRUE) = "ZeroLpAmount"

-----------------------------------------------------------------------------
\* C12 (release authorization): a release of an existing lock record, with
\* any pool, by a caller other than config.relayer ends with
\* UnauthorizedRelayer (so it changes nothing); every step in which a lock
\* record becomes released is a release called by config.relayer, and
\* neither config.admin, the pool's admin nor the lock's sender is that
\* identity's substitute.
C12_UnauthorizedState ==
    \A k \in ExistingLocks, p \in InitializedPools, c \in Identities :
        c # config.relayer
            => release_locked_liquidity_error(p, c, k) = "UnauthorizedRelayer"

C12_ReleaseStep ==
    \A k \in LockKeys :
        (~bridge_locks[k].released /\ bridge_locks'[k].released)
            => /\ IsCall("release_locked_liquidity")
               /\ last'.key = k
               /\ last'.caller = config.relayer

C12_ReleaseAuthorization == [](C12_UnauthorizedState) /\ [][C12_ReleaseStep]_vars

\* An unreleased lock exists whose release the pool admin and the lock's own
\* sender are refused, after the relayer has released another lock.
C12_Witness ==
    /\ last.op = "release_locked_liquidity"
    /\ last.caller = config.relayer
    /\ \E k \in ExistingLocks :
        /\ ~bridge_locks[k].released
        /\ bridge_locks[k].sender # config.relayer
        /\ release_locked_liquidity_error(bridge_locks[k].pool, bridge_locks[k].sender, k)
               = "UnauthorizedRelayer"
        /\ release_locked_liquidity_error(bridge_locks[k].pool, pools[bridge_locks[k].pool].admin, k)
               = "UnauthorizedRelayer"

-----------------------------------------------------------------------------
\* C13 (admin authorization): initialize_pool by a caller other than
\* config.admin never succeeds and ends with UnauthorizedAdmin when the pool
\* does not exist yet; update_fee_rate, pause_pool and resume_pool on an
\* existing pool by a caller other than that pool's admin end with
\* UnauthorizedAdmin; every successful initialize_pool is called by
\* config.admin, and fee_rate_bps and paused of an existing pool change only
\* in a call by the pool's own admin.
C13_UnauthorizedState ==
    /\ \A p \in PoolIds, c \in Identities, f \in InitFeeRates :
           c # config.admin =>
               /\ initialize_pool_error(p, c, f) # "Ok"
               /\ ~pools[p].initialized
                      => initialize_pool_error(p, c, f) = "UnauthorizedAdmin"
    /\ \A p \in InitializedPools, c \in Identities, f \in UpdateFeeRates :
           c # pools[p].admin =>
               /\ update_fee_rate_error(p, c, f) = "UnauthorizedAdmin"
               /\ pool_admin_error(p, c) = "UnauthorizedAdmin"

C13_AdminStep ==
    /\ IsCall("initialize_pool") => last'.caller = config.admin
    /\ \A p \in InitializedPools :
           ( \/ pools'[p].fee_rate_bps # pools[p].fee_rate_bps
             \/ pools'[p].paused # pools[p].paused )
               => /\ last'.caller = pools[p].admin
                  /\ last'.pool = p
                  /\ last'.op \in {"update_fee_rate", "pause_pool", "resume_pool"}
                  /\ calls' = calls + 1

C13_AdminAuthorization == [](C13_UnauthorizedState) /\ [][C13_AdminStep]_vars

\* The pool admin has just changed the fee rate of a pool on which the
\* relayer and a user are refused.
C13_Witness ==
    /\ last.op = "update_fee_rate"
    /\ last.caller = pools[last.pool].admin
    /\ pools[last.pool].fee_rate_bps = last.amount
    /\ \A c \in Identities \ {pools[last.pool].admin} :
           /\ update_fee_rate_error(last.pool, c, 5000) = "UnauthorizedAdmin"
           /\ pool_admin_error(last.pool, c) = "UnauthorizedAdmin"
           /\ \E q \in PoolIds : initialize_pool_error(q, c, 0) = "UnauthorizedAdmin"

\* initialize_pool stores its signer, who is config.admin, as the pool's
\* admin, and no instruction writes config.admin or pool.admin afterwards:
\* the admin of every pool is config.admin in every reachable state.
PoolAdminIsConfigAdmin ==
    \A p \in InitializedPools : pools[p].admin = config.admin

-----------------------------------------------------------------------------
\* C14 (all-or-nothing abort): every instruction that returns an error
\* leaves the config, every pool, every lock record, every vault balance
\* and every share supply exactly as before the call, whatever the handler
\* had written when it failed; when a lock's token transfer fails, the
\* next_lock_nonce it had already advanced and the account it had created
\* are not kept.
C14_AbortStep ==
    (last' # last /\ last'.result # "Ok")
        => UNCHANGED <<config, pools, bridge_locks, lp_supply, vault>>

-----------------------------------------------------------------------------
\* C15 (lock accounting): a successful lock_for_bridge(amount) creates
\* exactly one lock record, at the address of the pool's next_lock_nonce
\* before the call, with released = FALSE, that nonce, the pool, and the
\* amount, destination chain id, recipient and sender of the call; it adds
\* amount to the vault, to total_liquidity and to locked_liquidity, and
\* leaves available_liquidity, every other pool field but next_lock_nonce,
\* the share supply, the other pools and every existing lock record
\* unchanged.
C15_LockStep ==
    IsCall("lock_for_bridge") =>
        LET p == last'.pool
            amount == last'.amount
            nonce == pools[p].next_lock_nonce
            k == <<p, nonce>>
        IN  /\ amount > 0
            /\ last'.key = k
            /\ ~bridge_locks[k].initialized
            /\ \E d \in ChainIds, r \in Recipients, now \in Timestamps :
                   bridge_locks' = [bridge_locks EXCEPT ![k] =
                       [ initialized          |-> TRUE,
                         pool                 |-> p,
                         amount               |-> amount,
                         nonce                |-> nonce,
                         destination_chain_id |-> d,
                         recipient_address    |-> r,
                         sender               |-> last'.caller,
                         released             |-> FALSE,
                         locked_at            |-> now ]]
            /\ Cardinality({j \in LockKeys : bridge_locks'[j].initialized})
                   = Cardinality(ExistingLocks) + 1
            /\ vault' = [vault EXCEPT ![p] = @ + amount]
            /\ pools' = [pools EXCEPT
                   ![p].total_liquidity = @ + amount,
                   ![p].locked_liquidity = @ + amount,
                   ![p].next_lock_nonce = @ + 1]
            /\ pools'[p].available_liquidity = pools[p].available_liquidity
            /\ UNCHANGED <<lp_supply, config>>

-----------------------------------------------------------------------------
\* C16 (release accounting): a successful release of a lock of amount a
\* takes a out of the pool's locked_liquidity and adds it to its
\* available_liquidity, sets released on that record, and leaves
\* total_liquidity, next_lock_nonce and every other pool field, the vault
\* balances (no token moves), the share supply, the other pools and all
\* other lock records unchanged; no release with a pool other than the
\* record's own succeeds, and the relayer's ends with InvalidBridgeLock.
C16_ReleaseStep ==
    IsCall("release_locked_liquidity") =>
        LET p == last'.pool
            k == last'.key
            a == bridge_locks[k].amount
        IN  /\ bridge_locks[k].initialized
            /\ bridge_locks[k].pool = p
            /\ a > 0
            /\ pools' = [pools EXCEPT
                   ![p].locked_liquidity = @ - a,
                   ![p].available_liquidity = @ + a]
            /\ pools'[p].total_liquidity = pools[p].total_liquidity
            /\ pools'[p].next_lock_nonce = pools[p].next_lock_nonce
            /\ bridge_locks' = [bridge_locks EXCEPT ![k].released = TRUE]
            /\ UNCHANGED <<vault, lp_supply, config>>

C16_WrongPool ==
    \A k \in ExistingLocks, p \in InitializedPools :
        p # bridge_locks[k].pool =>
            /\ \A c \in Identities : release_locked_liquidity_error(p, c, k) # "Ok"
            /\ release_locked_liquidity_error(p, config.relayer, k) = "InvalidBridgeLock"

C16_ReleaseAccounting == [](C16_WrongPool) /\ [][C16_ReleaseStep]_vars

\* A lock has just been released and credited to its pool, and the relayer's
\* release of that record with the other pool is refused with
\* InvalidBridgeLock.
C16_Witness ==
    /\ last.op = "release_locked_liquidity"
    /\ bridge_locks[last.key].released
    /\ pools[last.pool].available_liquidity >= bridge_locks[last.key].amount
    /\ \E q \in InitializedPools :
        /\ q # last.pool
        /\ release_locked_liquidity_error(q, config.relayer, last.key) = "InvalidBridgeLock"

-----------------------------------------------------------------------------
\* C17 (lock records are an immutable audit trail): in every step, a lock
\* record that exists still exists afterwards with the same pool, amount,
\* nonce, destination_chain_id, recipient_address, sender and locked_at, and
\* its released flag either keeps its value or goes from FALSE to TRUE.
C17_RecordStep ==
    \A k \in LockKeys :
        bridge_locks[k].initialized =>
            /\ bridge_locks'[k].initialized
            /\ bridge_locks'[k].pool = bridge_locks[k].pool
            /\ bridge_locks'[k].amount = bridge_locks[k].amount
            /\ bridge_locks'[k].nonce = bridge_locks[k].nonce
            /\ bridge_locks'[k].destination_chain_id = bridge_locks[k].destination_chain_id
            /\ bridge_locks'[k].recipient_address = bridge_locks[k].recipient_address
            /\ bridge_locks'[k].sender = bridge_locks[k].sender
            /\ bridge_locks'[k].locked_at = bridge_locks[k].locked_at
            /\ bridge_locks[k].released => bridge_locks'[k].released

C17_ImmutableAuditTrail == [][C17_RecordStep]_vars

\* A released record and a later record of the same pool exist side by side
\* after a lock that followed the release.
C17_Witness ==
    /\ last.op = "lock_for_bridge"
    /\ bridge_locks[last.key].nonce = 1
    /\ bridge_locks[<<last.pool, 0>>].released
    /\ bridge_locks[<<last.pool, 0>>].amount > 0

-----------------------------------------------------------------------------
\* C18 (deposit fee arithmetic): in every reachable state fee_rate_bps of
\* every pool is at most 10000 and initialize_pool and update_fee_rate
\* refuse a larger value, and for every amount of the u64 range the fee a
\* deposit computes is the exact floor(amount * fee_rate_bps / 10000), which
\* is at most amount: the product neither wraps nor stops the program.
C18_DepositFeeArithmetic ==
    \A p \in InitializedPools :
        /\ pools[p].fee_rate_bps <= MAX_FEE_RATE_BPS
        /\ \A c \in Identities, f \in InitFeeRates \cup UpdateFeeRates :
               f > MAX_FEE_RATE_BPS =>
                   /\ update_fee_rate_error(p, c, f) # "Ok"
                   /\ initialize_pool_error(p, c, f) # "Ok"
        /\ \A amt \in Amounts :
               /\ deposit_fee(amt, pools[p].fee_rate_bps)
                      = (amt * pools[p].fee_rate_bps) \div BPS_DENOMINATOR
               /\ deposit_fee(amt, pools[p].fee_rate_bps) <= amt

\* The part of the statement about the fee rate alone.
C18_FeeRateBounded ==
    \A p \in PoolIds :
        /\ pools[p].fee_rate_bps <= MAX_FEE_RATE_BPS
        /\ \A c \in Identities, f \in InitFeeRates \cup UpdateFeeRates :
               f > MAX_FEE_RATE_BPS =>
                   /\ update_fee_rate_error(p, c, f) # "Ok"
                   /\ initialize_pool_error(p, c, f) # "Ok"

\* The fee of the deposits whose product fits in a u64.
C18_DepositFeeInRange ==
    \A p \in InitializedPools, amt \in Amounts :
        ~mul_overflows(amt, pools[p].fee_rate_bps) =>
            /\ deposit_fee(amt, pools[p].fee_rate_bps)
                   = (amt * pools[p].fee_rate_bps) \div BPS_DENOMINATOR
            /\ deposit_fee(amt, pools[p].fee_rate_bps) <= amt

-----------------------------------------------------------------------------
\* C19 (the InsufficientLiquidity guard of withdraw is unreachable): in
\* every reachable state and for every share amount a caller may pass, the
\* payout floor(available_liquidity * lp_amount / share supply) is at most
\* available_liquidity, and no withdraw ends with InsufficientLiquidity.
C19_GuardUnreachable ==
    /\ last.result # "InsufficientLiquidity"
    /\ \A p \in InitializedPools, lp \in Amounts, holds \in BOOLEAN :
           /\ withdraw_liquidity_error(p, lp, holds) # "InsufficientLiquidity"
           /\ (lp > 0 /\ lp_supply[p] > 0)
                  => (pools[p].available_liquidity * lp) \div lp_supply[p]
                         <= pools[p].available_liquidity

\* C19, amended: for every share amount up to the share supply the payout is
\* at most available_liquidity and the withdraw does not end with
\* InsufficientLiquidity; a withdraw ends with InsufficientLiquidity only
\* when it asks for more shares than exist, and then before anything is
\* burned or paid.
C19_GuardOnlyBeyondSupply ==
    \A p \in InitializedPools, lp \in Amounts, holds \in BOOLEAN :
        LET out == withdraw_stablecoin_out(pools[p].available_liquidity, lp, lp_supply[p])
        IN  /\ (lp > 0 /\ lp <= lp_supply[p])
                => /\ withdraw_liquidity_error(p, lp, holds) # "InsufficientLiquidity"
                   /\ out # None => out <= pools[p].available_liquidity
            /\ withdraw_liquidity_error(p, lp, holds) = "InsufficientLiquidity"
                => /\ lp > lp_supply[p]
                   /\ withdraw_liquidity_written(p, lp, holds) = Accounts

\* A withdraw of more shares than exist has just been refused with
\* InsufficientLiquidity, on a pool where a withdraw of the whole supply is
\* accepted.
C19_Witness ==
    /\ last.op = "withdraw_liquidity"
    /\ last.result = "InsufficientLiquidity"
    /\ \E p \in InitializedPools :
        /\ lp_supply[p] = 1
        /\ withdraw_liquidity_error(p, 4, TRUE) = "InsufficientLiquidity"
        /\ withdraw_liquidity_error(p, 1, TRUE) = "Ok"

-----------------------------------------------------------------------------
\* C20 (nonce counter at its maximum): next_lock_nonce of a pool never
\* decreases; a lock taken at next_lock_nonce = u64::MAX leaves the counter
\* at u64::MAX (it saturates and does not wrap to 0); and in every state the
\* lock records of one pool carry pairwise different nonces, no lock that
\* addresses an existing record succeeding.
C20_NonceStep ==
    \A p \in PoolIds :
        /\ pools'[p].next_lock_nonce >= pools[p].next_lock_nonce
        /\ (IsCall("lock_for_bridge") /\ last'.pool = p
              /\ pools[p].next_lock_nonce = U64Max)
               => pools'[p].next_lock_nonce = U64Max

C20_NoncesDistinct ==
    \A p \in InitializedPools :
        /\ \A j \in LocksOf(p), k \in LocksOf(p) :
               bridge_locks[j].nonce = bridge_locks[k].nonce => j = k
        /\ \A k \in LocksOf(p), amt \in Amounts, funded \in BOOLEAN :
               lock_for_bridge_error(p, amt, k[2], funded) # "Ok"

C20_NonceAtMaximum == [](C20_NoncesDistinct) /\ [][C20_NonceStep]_vars

\* A lock has just taken the nonce u64::MAX: the counter stays there and
\* the next lock of the pool finds the address in use.
C20_Witness ==
    /\ last.op = "lock_for_bridge"
    /\ last.key[2] = U64Max
    /\ bridge_locks[last.key].nonce = U64Max
    /\ bridge_locks[<<last.pool, U64Max - 1>>].nonce = U64Max - 1
    /\ pools[last.pool].next_lock_nonce = U64Max
    /\ lock_for_bridge_error(last.pool, 1, U64Max, TRUE) = "AccountInUse"

-----------------------------------------------------------------------------
\* The positions of the log that hold an event of the given kind for the
\* given pool and nonce.
EventsOf(kind, p, nonce) ==
    {i \in DOMAIN events :
        events[i].event = kind /\ events[i].pool = p /\ events[i].nonce = nonce}

BridgeEvents ==
    {i \in DOMAIN events : events[i].event \in {"BridgeIntent", "BridgeReverted"}}

\* C21 (event ordering and exactly-once): every successful lock_for_bridge
\* appends exactly one event, a BridgeIntent with the pool, nonce and amount
\* of the record it created; every successful release appends exactly one
\* event, a BridgeReverted with the pool, nonce and amount of the record it
\* released; a failed instruction appends nothing, and no other step
\* appends a bridge event or removes an event; in every state the log holds,
\* for each pool and nonce, at most one BridgeIntent and at most one
\* BridgeReverted, and every BridgeReverted comes after the BridgeIntent of
\* the same pool, nonce and amount.
C21_EmitStep ==
    /\ IsCall("lock_for_bridge") =>
           /\ Len(events') = Len(events) + 1
           /\ SubSeq(events', 1, Len(events)) = events
           /\ LET e == events'[Len(events')]
                  r == bridge_locks'[last'.key]
              IN  /\ e.event = "BridgeIntent"
                  /\ ~bridge_locks[last'.key].initialized
                  /\ e.pool = r.pool /\ e.pool = last'.pool
                  /\ e.nonce = r.nonce
                  /\ e.amount = r.amount
    /\ IsCall("release_locked_liquidity") =>
           /\ Len(events') = Len(events) + 1
           /\ SubSeq(events', 1, Len(events)) = events
           /\ LET e == events'[Len(events')]
                  r == bridge_locks[last'.key]
              IN  /\ e.event = "BridgeReverted"
                  /\ e.pool = r.pool /\ e.pool = last'.pool
                  /\ e.nonce = r.nonce
                  /\ e.amount = r.amount
    /\ (last' # last /\ last'.result # "Ok") => events' = events
    /\ ~(IsCall("lock_for_bridge") \/ IsCall("release_locked_liquidity")) =>
           /\ Len(events') >= Len(events)
           /\ SubSeq(events', 1, Len(events)) = events
           /\ \A i \in DOMAIN events' :
                  i > Len(events) =>
                      events'[i].event \notin {"BridgeIntent", "BridgeReverted"}

C21_LogState ==
    \A j \in BridgeEvents :
        LET e == events[j]
        IN  /\ Cardinality(EventsOf(e.event, e.pool, e.nonce)) = 1
            /\ e.event = "BridgeReverted" =>
                   \E i \in EventsOf("BridgeIntent", e.pool, e.nonce) :
                       i < j /\ events[i].amount = e.amount

C21_EventOrdering == [](C21_LogState) /\ [][C21_EmitStep]_vars

\* A release has just emitted the BridgeReverted of a lock whose
\* BridgeIntent, with the same nonce and amount, is earlier in the log.
C21_Witness ==
    /\ last.op = "release_locked_liquidity"
    /\ last.result = "Ok"
    /\ Len(events) >= 2
    /\ events[Len(events)].event = "BridgeReverted"
    /\ events[Len(events)].nonce = bridge_locks[last.key].nonce
    /\ \E i \in 1 .. (Len(events) - 1) :
        /\ events[i].event = "BridgeIntent"
        /\ events[i].pool = last.pool
        /\ events[i].nonce = events[Len(events)].nonce
        /\ events[i].amount = events[Len(events)].amount

-----------------------------------------------------------------------------
\* The sum of amount over a set of lock records.
RECURSIVE SumOfAmounts(_)
SumOfAmounts(keys) ==
    IF keys = {} THEN 0
    ELSE LET k == CHOOSE x \in keys : TRUE
         IN  bridge_locks[k].amount + SumOfAmounts(keys \ {k})

UnreleasedLocksOf(p) == {k \in LocksOf(p) : ~bridge_locks[k].released}

\* C22 (locked_liquidity reconciles with the lock records): in every
\* reachable state the locked_liquidity of each pool is the sum of amount
\* over the pool's lock records that are not released, and for each of
\* those records the checked subtraction of release does not underflow.
C22_LockedReconciles ==
    \A p \in PoolIds :
        /\ pools[p].locked_liquidity = SumOfAmounts(UnreleasedLocksOf(p))
        /\ \A k \in UnreleasedLocksOf(p) :
               /\ bridge_locks[k].amount <= pools[p].locked_liquidity
               /\ release_locked_after(pools[p], bridge_locks[k].amount) # None

\* A pool holds a released and an unreleased lock after a release: its
\* locked_liquidity is the amount of the unreleased one.
C22_Witness ==
    /\ last.op = "release_locked_liquidity"
    /\ \E k \in UnreleasedLocksOf(last.pool) :
        /\ k # last.key
        /\ pools[last.pool].locked_liquidity = bridge_locks[k].amount
        /\ bridge_locks[last.key].released
        /\ bridge_locks[last.key].amount > 0

-----------------------------------------------------------------------------
\* C23 (the ledger matches the vault): with the vault credited and debited
\* by the transfers of deposit, withdraw and lock alone, in every reachable
\* state the total_liquidity of each pool is the balance of its vault, and a
\* withdraw that passes its checks and burns its shares asks the vault for
\* no more than it holds: no withdraw fails in its transfer.
C23_LedgerMatchesVault ==
    \A p \in PoolIds :
        /\ pools[p].total_liquidity = vault[p]
        /\ \A lp \in Amounts, holds \in BOOLEAN :
               LET out == withdraw_stablecoin_out(pools[p].available_liquidity, lp, lp_supply[p])
               IN  /\ withdraw_liquidity_error(p, lp, holds) = "TokenError"
                       => ~burn_ok(p, lp, holds)
                   /\ withdraw_liquidity_error(p, lp, holds) = "Ok"
                       => /\ out <= vault[p]
                          /\ transfer_from_vault_ok(p, out)

\* A withdraw has just been paid out of a vault that also holds locked
\* funds.
C23_Witness ==
    /\ last.op = "withdraw_liquidity"
    /\ vault[last.pool] > 0
    /\ pools[last.pool].locked_liquidity > 0
    /\ vault[last.pool] = pools[last.pool].available_liquidity
                              + pools[last.pool].locked_liquidity

-----------------------------------------------------------------------------
\* a / b >= c / d for naturals with b > 0 and d > 0, compared by integer
\* parts and then by the inverted remainders, so that no product is formed.
RECURSIVE RatioGeq(_, _, _, _)
RatioGeq(a, b, c, d) ==
    IF a \div b # c \div d THEN a \div b > c \div d
    ELSE IF c % d = 0 THEN TRUE
    ELSE IF a % b = 0 THEN FALSE
    ELSE RatioGeq(d, c % d, b, a % b)

\* a * s >= b * t for naturals.
ProductGeq(a, s, b, t) ==
    IF b = 0 \/ t = 0 THEN TRUE
    ELSE IF a = 0 \/ s = 0 THEN FALSE
    ELSE RatioGeq(a, t, b, s)

\* C24 (share value never falls): in every reachable state the share supply
\* of a pool is at most its available_liquidity, and no step lowers the
\* claim of a share: with A, S the available_liquidity and share supply
\* before a step and A', S' after it, A' * S >= A * S'.
C24_SupplyBacked ==
    \A p \in PoolIds : lp_supply[p] <= pools[p].available_liquidity

C24_ShareStep ==
    \A p \in PoolIds :
        ProductGeq(pools'[p].available_liquidity, lp_supply[p],
                   pools[p].available_liquidity, lp_supply'[p])

C24_ShareValueNeverFalls == [](C24_SupplyBacked) /\ [][C24_ShareStep]_vars

\* A deposit has just been made into a pool whose shares were worth more
\* than 1:1, and they still are.
C24_Witness ==
    /\ last.op = "deposit_liquidity"
    /\ lp_supply[last.pool] > 1
    /\ pools[last.pool].available_liquidity > lp_supply[last.pool]
    /\ pools[last.pool].available_liquidity > last.amount

====
